---- MODULE Spec2Model ----
(***************************************************************************)
(* Model of mcp_applemusic.py: the query sanitizer, the osascript          *)
(* invocation wrapper and the MCP tools that build AppleScript sources.    *)
(*                                                                         *)
(* A Python string is a sequence of one-character strings.  Fixed text of  *)
(* a script template or of a message is kept as one multi-character        *)
(* element; such an element never holds a double quote or a backslash,     *)
(* those are always elements of their own.                                 *)
(***************************************************************************)
EXTENDS Integers, Sequences, FiniteSets, TLC

\* ---------------------------------------------------------------- bounds
MaxHead == 1
MaxTail == 2
MaxText == 2
MaxName == 1
MaxSongs == 3

\* ------------------------------------------------------------ characters
DQ == "\""
SQ == "'"
BS == "\\"

\* \w of the pattern of line 11, over the modelled alphabet
WordChars == {"a", "b", "1", "_"}

\* \s of the pattern of line 11, and the characters str.strip() removes
SpaceChars == {" ", "\n", "\t"}

\* the characters the pattern of line 11 names one by one
PunctChars == {"-", ".", "(", ")", "&"}

\* the double quote let through by the character class
IsAllowed_withDQ(c) == c \in WordChars \cup SpaceChars \cup PunctChars \cup {DQ}

IsAllowed(c) == c \in WordChars \cup SpaceChars \cup PunctChars

\* query[:100]
MaxQueryLen == 100

\* ---------------------------------------------------------- str helpers
\* query[-100:] instead of query[:100]
Take_last(s, n) == IF Len(s) <= n THEN s ELSE SubSeq(s, Len(s) - n + 1, Len(s))

Take(s, n) == IF Len(s) <= n THEN s ELSE SubSeq(s, 1, n)

\* str.replace(c, "\\" + c): every occurrence of c gets a backslash in front.
\* The string is split in halves to keep the evaluation shallow.
RECURSIVE Replace(_, _)
Replace(s, c) ==
    IF Len(s) = 0 THEN <<>>
    ELSE IF Len(s) = 1 THEN (IF s[1] = c THEN <<BS, c>> ELSE s)
    ELSE LET h == Len(s) \div 2
         IN  Replace(SubSeq(s, 1, h), c) \o Replace(SubSeq(s, h + 1, Len(s)), c)

\* a character class that lets the quotes through
ReSub_keepQuotes(s) == SelectSeq(s, LAMBDA c : IsAllowed(c) \/ c \in {DQ, SQ})

\* a character class that lets the backslash through
ReSub_keepBackslash(s) == SelectSeq(s, LAMBDA c : IsAllowed(c) \/ c = BS)

\* re.sub(r'[^\w\s\-\.\(\)&]', '', query)
ReSub(s) == SelectSeq(s, IsAllowed)

\* the slice of line 12 left out
sanitize_query_untruncated(query) == ReSub(Replace(Replace(query, DQ), SQ))

\* the substitution of line 11 left out
sanitize_query_unfiltered(query) == Take(Replace(Replace(query, DQ), SQ), MaxQueryLen)

\* the slice taken before the substitution instead of after it
sanitize_query_truncate_first(query) ==
    ReSub(Take(Replace(Replace(query, DQ), SQ), MaxQueryLen))

sanitize_query(query) ==
    LET q1 == Replace(query, DQ)
        q2 == Replace(q1, SQ)
        q3 == ReSub(q2)
    IN  Take(q3, MaxQueryLen)

\* s.strip()
Strip(s) ==
    LET keep == {i \in 1..Len(s) : s[i] \notin SpaceChars}
    IN  IF keep = {} THEN <<>>
        ELSE SubSeq(s, CHOOSE i \in keep : \A j \in keep : i <= j,
                       CHOOSE i \in keep : \A j \in keep : i >= j)

\* songs.split(",")
RECURSIVE Split(_, _)
Split(s, sep) ==
    LET at == {i \in 1..Len(s) : s[i] = sep}
    IN  IF at = {} THEN <<s>>
        ELSE LET k == CHOOSE i \in at : \A j \in at : i <= j
             IN  <<SubSeq(s, 1, k - 1)>> \o Split(SubSeq(s, k + 1, Len(s)), sep)

\* sep.join(parts)
RECURSIVE Join(_, _)
Join(sep, parts) ==
    IF parts = <<>> THEN <<>>
    ELSE IF Len(parts) = 1 THEN parts[1]
    ELSE parts[1] \o sep \o Join(sep, Tail(parts))

\* ------------------------------------------------- subprocess.run outcomes
\* Exception classes subprocess.run can raise, each with its ancestors.
Bases ==
    [TimeoutExpired     |-> {"TimeoutExpired", "SubprocessError", "Exception", "BaseException"},
     FileNotFoundError  |-> {"FileNotFoundError", "OSError", "Exception", "BaseException"},
     UnicodeDecodeError |-> {"UnicodeDecodeError", "ValueError", "Exception", "BaseException"}]

IsInstance(cls, base) == base \in Bases[cls]

OutTexts == {<<>>, <<"a", "\n">>, <<" ", "a", " ", "b", "\n">>}

NoOutcome ==
    [kind |-> "none", returncode |-> 0, stdout |-> <<>>, stderr |-> <<>>,
     cls |-> "none", msg |-> <<>>]

Completed(rc, out, err) ==
    [kind |-> "completed", returncode |-> rc, stdout |-> out, stderr |-> err,
     cls |-> "none", msg |-> <<>>]

Raised(c, m) ==
    [kind |-> "raised", returncode |-> 0, stdout |-> <<>>, stderr |-> <<>>,
     cls |-> c, msg |-> m]

Outcomes ==
    {Completed(rc, out, err) : rc \in {0, 1}, out \in OutTexts, err \in OutTexts}
    \cup {Raised("TimeoutExpired", <<"Command timed out after 30 seconds">>),
          Raised("FileNotFoundError", <<"No such file or directory: ", SQ, "osascript", SQ>>),
          Raised("UnicodeDecodeError", <<"invalid start byte">>)}

\* the two except clauses in the other order: the general one comes first
run_applescript_general_first(o) ==
    IF o.kind = "completed"
    THEN IF o.returncode # 0
         THEN [raised |-> FALSE, value |-> <<"Error: ">> \o Strip(o.stderr)]
         ELSE [raised |-> FALSE, value |-> Strip(o.stdout)]
    ELSE IF IsInstance(o.cls, "Exception")
         THEN [raised |-> FALSE, value |-> <<"Error: ">> \o o.msg]
    ELSE IF IsInstance(o.cls, "TimeoutExpired")
         THEN [raised |-> FALSE, value |-> <<"Error: AppleScript execution timed out">>]
    ELSE [raised |-> TRUE, value |-> <<>>]

\* What run_applescript hands back for one outcome of subprocess.run:
\* raised tells whether an exception leaves the function.
run_applescript(o) ==
    IF o.kind = "completed"
    THEN IF o.returncode # 0
         THEN [raised |-> FALSE, value |-> <<"Error: ">> \o Strip(o.stderr)]
         ELSE [raised |-> FALSE, value |-> Strip(o.stdout)]
    ELSE IF IsInstance(o.cls, "TimeoutExpired")
         THEN [raised |-> FALSE, value |-> <<"Error: AppleScript execution timed out">>]
    ELSE IF IsInstance(o.cls, "Exception")
         THEN [raised |-> FALSE, value |-> <<"Error: ">> \o o.msg]
    ELSE [raised |-> TRUE, value |-> <<>>]

\* ------------------------------------------------------- script templates
PlayScript == <<"tell application ", DQ, "Music", DQ, " to play">>

PauseScript == <<"tell application ", DQ, "Music", DQ, " to pause">>

NextScript == <<"tell application ", DQ, "Music", DQ, " to next track">>

PreviousScript == <<"tell application ", DQ, "Music", DQ, " to previous track">>

SearchScript(sanitized_query) ==
    <<"\n    tell application ", DQ, "Music", DQ,
      "\n        set trackList to every track whose name contains ", DQ>>
    \o sanitized_query \o
    <<DQ, "\n        set output to ", DQ, DQ,
      "\n        repeat with t in trackList\n            set output to output & (name of t) & ",
      DQ, " - ", DQ,
      " & (artist of t) & linefeed\n        end repeat\n        return output\n    end tell\n    ">>

PlaySongScript(sanitized_song) ==
    <<"\n    tell application ", DQ, "Music", DQ,
      "\n        set theTrack to first track whose name is ", DQ>>
    \o sanitized_song \o
    <<DQ, "\n        play theTrack\n        return ", DQ, "Now playing: ", DQ,
      " & (name of theTrack) & ", DQ, " by ", DQ,
      " & (artist of theTrack)\n    end tell\n    ">>

\* " or ".join([f'name is "{s}"' for s in song_list])
Conditions(song_list) ==
    Join(<<" or ">>, [i \in 1..Len(song_list) |-> <<"name is ", DQ>> \o song_list[i] \o <<DQ>>])

PlaylistScript(sanitized_name, conditions) ==
    <<"\n    tell application ", DQ, "Music", DQ,
      "\n        set newPlaylist to make new user playlist with properties {name:", DQ>>
    \o sanitized_name \o
    <<DQ, "}\n        set matchingTracks to every track whose (">>
    \o conditions \o
    <<")\n        repeat with t in matchingTracks\n            duplicate t to newPlaylist\n        end repeat\n        return ",
      DQ, "Playlist ", BS, DQ>>
    \o sanitized_name \o
    <<BS, DQ, " created with ", DQ, " & (count of tracks of newPlaylist) & ", DQ,
      " tracks.", DQ, "\n    end tell\n    ">>

LibraryScript ==
    <<"\n    tell application ", DQ, "Music", DQ,
      "\n        set totalTracks to count of every track\n        set totalPlaylists to count of user playlists\n        return ",
      DQ, "Total tracks: ", DQ, " & totalTracks & linefeed & ", DQ, "Total playlists: ", DQ,
      " & totalPlaylists\n    end tell\n    ">>

CurrentSongScript ==
    <<"\n    tell application ", DQ, "Music", DQ,
      "\n        if player state is playing then\n            set currentTrack to current track\n            return ",
      DQ, "Now playing: ", DQ, " & (name of currentTrack) & ", DQ, " by ", DQ,
      " & (artist of currentTrack) & ", DQ, " from ", DQ,
      " & (album of currentTrack)\n        else\n            return ",
      DQ, "No track is currently playing", DQ, "\n        end if\n    end tell\n    ">>

AllSongsScript ==
    <<"\n    tell application ", DQ, "Music", DQ,
      "\n        set trackList to tracks 1 thru 100\n        set output to ", DQ, DQ,
      "\n        repeat with t in trackList\n            set output to output & (name of t) & ",
      DQ, " - ", DQ,
      " & (artist of t) & linefeed\n        end repeat\n        return output\n    end tell\n    ">>

\* ------------------------------------------------------------------ state
VARIABLES
    pc,          \* sanitizer under test: "ready" before the call, "returned" after
    arg,         \* the string handed to sanitize_query
    ret,         \* the string sanitize_query returned
    fed,         \* TRUE once a returned string was handed back in as the argument
    tool,        \* the MCP tool that ran last, "none" before the first call
    text,        \* its query / song / name argument
    songs,       \* the songs argument of itunes_create_playlist
    song_list,   \* the local song_list of itunes_create_playlist
    sanitized,   \* sanitized_query / sanitized_song / sanitized_name
    invoked,     \* the scripts handed to osascript during the call, in order
    outcome,     \* what subprocess.run did
    result,      \* the string the tool returned
    raised       \* TRUE when the tool ended with an exception instead

sanVars == <<pc, arg, ret, fed>>
toolVars == <<tool, text, songs, song_list, sanitized, invoked, outcome, result, raised>>
vars == <<pc, arg, ret, fed, tool, text, songs, song_list, sanitized, invoked, outcome,
          result, raised>>

Repeat(c, n) == [i \in 1..n |-> c]

RECURSIVE StringsOfLen(_, _)
StringsOfLen(A, n) ==
    IF n = 0 THEN {<<>>}
    ELSE {Append(s, c) : s \in StringsOfLen(A, n - 1), c \in A}

StringsUpTo(A, n) == UNION {StringsOfLen(A, k) : k \in 0..n}

Alphabet == {"a", " ", "&", DQ, SQ, BS}
PadLens == {MaxQueryLen - 1, MaxQueryLen}
Pads == {<<>>} \cup {Repeat("a", n) : n \in PadLens}
               \cup {Repeat(c, MaxQueryLen) : c \in {DQ, BS}}
Queries == {h \o p \o t : h \in StringsUpTo(Alphabet, MaxHead), p \in Pads,
                          t \in StringsUpTo(Alphabet, MaxTail)}
Texts == StringsUpTo(Alphabet, MaxText)
NameAlphabet == {"a", DQ}
Names == StringsUpTo(NameAlphabet, MaxName)
SongAlphabet == {"a", " ", ",", ";", DQ}
SongTexts == StringsUpTo(SongAlphabet, MaxSongs)

SanIdle ==
    /\ pc = "ready"
    /\ arg = <<>>
    /\ ret = <<>>
    /\ fed = FALSE

ToolIdle ==
    /\ tool = "none"
    /\ text = <<>>
    /\ songs = <<>>
    /\ song_list = <<>>
    /\ sanitized = <<>>
    /\ invoked = <<>>
    /\ outcome = NoOutcome
    /\ result = <<>>
    /\ raised = FALSE

\* ------------------------------------------------- the sanitizer on its own
InitSanitize ==
    /\ pc = "ready"
    /\ arg \in Queries
    /\ ret = <<>>
    /\ fed = FALSE
    /\ ToolIdle

Call ==
    /\ pc = "ready"
    /\ ret' = sanitize_query(arg)
    /\ pc' = "returned"
    /\ UNCHANGED <<arg, fed>>
    /\ UNCHANGED toolVars

Feed ==
    /\ pc = "returned"
    /\ ~fed
    /\ arg' = ret
    /\ fed' = TRUE
    /\ pc' = "ready"
    /\ UNCHANGED ret
    /\ UNCHANGED toolVars

NextSanitize == Call \/ Feed

SpecSanitize == InitSanitize /\ [][NextSanitize]_vars

\* ------------------------------------------------------------ the MCP tools
\* return run_applescript(script): one osascript run, its outcome o
Return(t, x, ss, sl, sn, script, o) ==
    /\ tool' = t
    /\ text' = x
    /\ songs' = ss
    /\ song_list' = sl
    /\ sanitized' = sn
    /\ invoked' = <<script>>
    /\ outcome' = o
    /\ result' = run_applescript(o).value
    /\ raised' = run_applescript(o).raised
    /\ UNCHANGED sanVars

itunes_play ==
    /\ tool = "none"
    /\ \E o \in Outcomes : Return("itunes_play", <<>>, <<>>, <<>>, <<>>, PlayScript, o)

itunes_pause ==
    /\ tool = "none"
    /\ \E o \in Outcomes : Return("itunes_pause", <<>>, <<>>, <<>>, <<>>, PauseScript, o)

itunes_next ==
    /\ tool = "none"
    /\ \E o \in Outcomes : Return("itunes_next", <<>>, <<>>, <<>>, <<>>, NextScript, o)

itunes_previous ==
    /\ tool = "none"
    /\ \E o \in Outcomes : Return("itunes_previous", <<>>, <<>>, <<>>, <<>>, PreviousScript, o)

itunes_search ==
    /\ tool = "none"
    /\ \E query \in Texts, o \in Outcomes :
           LET sanitized_query == sanitize_query(query)
           IN  Return("itunes_search", query, <<>>, <<>>, sanitized_query,
                      SearchScript(sanitized_query), o)

itunes_play_song ==
    /\ tool = "none"
    /\ \E song \in Texts, o \in Outcomes :
           LET sanitized_song == sanitize_query(song)
           IN  Return("itunes_play_song", song, <<>>, <<>>, sanitized_song,
                      PlaySongScript(sanitized_song), o)

\* [sanitize_query(s.strip()) for s in songs.split(",") if s.strip()]
SongList(ss) ==
    LET items == SelectSeq(Split(ss, ","), LAMBDA s : Strip(s) # <<>>)
    IN  [i \in 1..Len(items) |-> sanitize_query(Strip(items[i]))]

itunes_create_playlist ==
    /\ tool = "none"
    /\ \E name \in Names, ss \in SongTexts :
           LET sl == SongList(ss)
           IN  IF sl = <<>>
               THEN /\ tool' = "itunes_create_playlist"
                    /\ text' = name
                    /\ songs' = ss
                    /\ song_list' = sl
                    /\ sanitized' = <<>>
                    /\ invoked' = <<>>
                    /\ outcome' = NoOutcome
                    /\ result' = <<"No songs provided.">>
                    /\ raised' = FALSE
                    /\ UNCHANGED sanVars
               ELSE LET conditions == Conditions(sl)
                        sanitized_name == sanitize_query(name)
                    IN  \E o \in Outcomes :
                            Return("itunes_create_playlist", name, ss, sl, sanitized_name,
                                   PlaylistScript(sanitized_name, conditions), o)

itunes_library ==
    /\ tool = "none"
    /\ \E o \in Outcomes : Return("itunes_library", <<>>, <<>>, <<>>, <<>>, LibraryScript, o)

itunes_current_song ==
    /\ tool = "none"
    /\ \E o \in Outcomes :
        Return("itunes_current_song", <<>>, <<>>, <<>>, <<>>, CurrentSongScript, o)

itunes_all_songs ==
    /\ tool = "none"
    /\ \E o \in Outcomes : Return("itunes_all_songs", <<>>, <<>>, <<>>, <<>>, AllSongsScript, o)

\* The call is over: its arguments, locals and return value are gone and the
\* server waits for the next request.
Respond ==
    /\ tool # "none"
    /\ tool' = "none"
    /\ text' = <<>>
    /\ songs' = <<>>
    /\ song_list' = <<>>
    /\ sanitized' = <<>>
    /\ invoked' = <<>>
    /\ outcome' = NoOutcome
    /\ result' = <<>>
    /\ raised' = FALSE
    /\ UNCHANGED sanVars

Init == SanIdle /\ ToolIdle

Next ==
    \/ itunes_play
    \/ itunes_pause
    \/ itunes_next
    \/ itunes_previous
    \/ itunes_search
    \/ itunes_play_song
    \/ itunes_create_playlist
    \/ itunes_library
    \/ itunes_current_song
    \/ itunes_all_songs
    \/ Respond

Spec == Init /\ [][Next]_vars

\* ======================================================== properties
Range(s) == {s[i] : i \in 1..Len(s)}

\* the allowed set as the specification lists it
AllowedSet == {"a", "b", "1", "_", " ", "\n", "\t", "-", ".", "(", ")", "&"}

OnlyAllowedChars(s) == \A i \in 1..Len(s) : s[i] \in AllowedSet

Prefix(s, n) == [i \in 1..(IF Len(s) < n THEN Len(s) ELSE n) |-> s[i]]

Count(s, c) == Cardinality({i \in 1..Len(s) : s[i] = c})

\* C1: the output of sanitize_query holds no double quote and no single quote.
C1_NoQuotesInOutput ==
    pc = "returned" => \A i \in 1..Len(ret) : ret[i] # DQ /\ ret[i] # SQ

C1_Witness ==
    /\ pc = "returned"
    /\ DQ \in Range(arg)
    /\ SQ \in Range(arg)
    /\ ret = SelectSeq(arg, LAMBDA c : c # DQ /\ c # SQ)
    /\ ret # <<>>

\* C2: every quote of the input is in the output, with a backslash in front
\* of it, and the output holds no quote without one.
C2_QuotesEscaped ==
    pc = "returned" =>
        /\ \A i \in 1..Len(ret) :
               ret[i] \in {DQ, SQ} => i > 1 /\ ret[i - 1] = BS
        /\ Count(ret, DQ) = Count(arg, DQ)
        /\ Count(ret, SQ) = Count(arg, SQ)

\* C4: the output is at most 100 characters long; an input with more than
\* 100 allowed characters is cut to 100, not refused.
C4_LengthBounded ==
    pc = "returned" =>
        /\ Len(ret) <= 100
        /\ Len(SelectSeq(arg, LAMBDA c : c \in AllowedSet)) > 100 => Len(ret) = 100

C4_Witness ==
    /\ pc = "returned"
    /\ Len(SelectSeq(arg, LAMBDA c : c \in AllowedSet)) > 100
    /\ Len(ret) = 100

\* C5: every character of the output is in the allowed set; no backslash
\* put in by the two escaping steps is left.
C5_OnlyAllowed ==
    pc = "returned" => OnlyAllowedChars(ret) /\ BS \notin Range(ret)

C5_Witness ==
    /\ pc = "returned"
    /\ ~fed
    /\ DQ \in Range(arg)
    /\ SQ \in Range(arg)
    /\ BS \notin Range(arg)
    /\ ret # <<>>
    /\ OnlyAllowedChars(ret)

\* C6: sanitizing a sanitized string gives the same string back.
C6_Idempotent ==
    (pc = "returned" /\ fed) => ret = arg

C6_Witness ==
    /\ pc = "returned"
    /\ fed
    /\ Len(arg) = 100
    /\ " " \in Range(arg)
    /\ ret = arg

\* C7: an input of allowed characters only comes back as its first
\* min(len, 100) characters.
C7_AllowedInputPrefix ==
    (pc = "returned" /\ OnlyAllowedChars(arg)) => ret = Prefix(arg, 100)

C7_Witness ==
    /\ pc = "returned"
    /\ ~fed
    /\ OnlyAllowedChars(arg)
    /\ Len(arg) > 100
    /\ arg[Len(arg)] # arg[1]
    /\ ret = SubSeq(arg, 1, 100)

\* C8: the output is the first 100 characters of the allowed characters of
\* the input, in their order; removed characters do not count.
C8_FilterThenTruncate ==
    pc = "returned" => ret = Prefix(SelectSeq(arg, LAMBDA c : c \in AllowedSet), 100)

C8_Witness ==
    /\ pc = "returned"
    /\ Len(arg) > 100
    /\ arg[1] \notin AllowedSet
    /\ Len(ret) = 100
    /\ ret[100] = arg[Len(arg)]
    /\ ret[100] # ret[1]

\* ------------------------------------------- AppleScript string literals
\* How osascript reads a source: a double quote opens a literal, inside it a
\* backslash takes the next character with it, a double quote closes it.
LexStep(mode, c) ==
    CASE mode = "code" -> (IF c = DQ THEN "str" ELSE "code")
      [] mode = "str"  -> (IF c = BS THEN "esc" ELSE IF c = DQ THEN "code" ELSE "str")
      [] mode = "esc"  -> "str"

\* the mode osascript is in after the elements i.. of s, read from mode
RECURSIVE LexEnd(_, _, _)
LexEnd(s, i, mode) ==
    IF i > Len(s) THEN mode ELSE LexEnd(s, i + 1, LexStep(mode, s[i]))

\* the elements i.. of s without the contents of the literals: the code and
\* the delimiting quotes
RECURSIVE SkeletonFrom(_, _, _)
SkeletonFrom(s, i, mode) ==
    IF i > Len(s) THEN <<>>
    ELSE LET outside == mode = "code" \/ (mode = "str" /\ s[i] = DQ)
         IN  (IF outside THEN <<s[i]>> ELSE <<>>)
                 \o SkeletonFrom(s, i + 1, LexStep(mode, s[i]))

Skeleton(s) == SkeletonFrom(s, 1, "code")

\* the script of a tool with empty texts put in, n song names for the playlist
Template(t, n) ==
    CASE t = "itunes_search" -> SearchScript(<<>>)
      [] t = "itunes_play_song" -> PlaySongScript(<<>>)
      [] t = "itunes_create_playlist" ->
             PlaylistScript(<<>>, Conditions([i \in 1..n |-> <<>>]))

TextTools == {"itunes_search", "itunes_play_song", "itunes_create_playlist"}

\* C3: the text put into the script of itunes_search, itunes_play_song and
\* itunes_create_playlist holds no double quote and no backslash, every
\* literal of the script is closed, and the script outside its literals,
\* delimiting quotes included, is the one of the template whatever the text.
C3_TextStaysInLiteral ==
    (tool \in TextTools /\ invoked # <<>>) =>
        /\ \A e \in {sanitized} \cup Range(song_list) :
               DQ \notin Range(e) /\ BS \notin Range(e)
        /\ LexEnd(invoked[1], 1, "code") = "code"
        /\ Skeleton(invoked[1]) = Skeleton(Template(tool, Len(song_list)))

C3_Witness ==
    /\ tool = "itunes_create_playlist"
    /\ invoked # <<>>
    /\ DQ \in Range(text)
    /\ DQ \in Range(songs)
    /\ \E i \in 1..Len(song_list) : song_list[i] # <<>>
    /\ Skeleton(invoked[1]) = Skeleton(Template(tool, Len(song_list)))

\* v is s without its leading and trailing whitespace
IsStripOf(v, s) ==
    \E a, b \in 0..Len(s) :
        /\ a + Len(v) + b = Len(s)
        /\ \A k \in 1..a : s[k] \in {" ", "\n", "\t"}
        /\ \A k \in (Len(s) - b + 1)..Len(s) : s[k] \in {" ", "\n", "\t"}
        /\ \A k \in 1..Len(v) : v[k] = s[a + k]
        /\ v # <<>> => v[1] \notin {" ", "\n", "\t"} /\ v[Len(v)] \notin {" ", "\n", "\t"}

\* C9 as stated: no exception leaves run_applescript; it returns the stripped
\* standard output on exit code 0, "Error: " and the captured standard error
\* otherwise, the timeout message on a timeout, "Error: " and the
\* description of the failure on any other failure.
C9_AsStated ==
    (tool # "none" /\ invoked # <<>>) =>
        /\ ~raised
        /\ (outcome.kind = "completed" /\ outcome.returncode = 0)
               => IsStripOf(result, outcome.stdout)
        /\ (outcome.kind = "completed" /\ outcome.returncode # 0)
               => result = <<"Error: ">> \o outcome.stderr
        /\ (outcome.kind = "raised" /\ outcome.cls = "TimeoutExpired")
               => result = <<"Error: AppleScript execution timed out">>
        /\ (outcome.kind = "raised" /\ outcome.cls # "TimeoutExpired")
               => result = <<"Error: ">> \o outcome.msg

\* C9, amended: as stated, but on a non-zero exit code the captured standard
\* error comes back without its leading and trailing whitespace.
C9_RunApplescriptResult ==
    (tool # "none" /\ invoked # <<>>) =>
        /\ ~raised
        /\ (outcome.kind = "completed" /\ outcome.returncode = 0)
               => IsStripOf(result, outcome.stdout)
        /\ (outcome.kind = "completed" /\ outcome.returncode # 0)
               => /\ Len(result) >= 1
                  /\ result[1] = "Error: "
                  /\ IsStripOf(Tail(result), outcome.stderr)
        /\ (outcome.kind = "raised" /\ outcome.cls = "TimeoutExpired")
               => result = <<"Error: AppleScript execution timed out">>
        /\ (outcome.kind = "raised" /\ outcome.cls # "TimeoutExpired")
               => result = <<"Error: ">> \o outcome.msg

C9_Witness ==
    /\ invoked # <<>>
    /\ outcome.kind = "completed"
    /\ outcome.returncode # 0
    /\ outcome.stderr = <<" ", "a", " ", "b", "\n">>
    /\ result = <<"Error: ", "a", " ", "b">>

\* the names of the 'name is "..."' clauses of a script, in order
ClauseNames(script) ==
    LET starts == SelectSeq([i \in 1..Len(script) |-> i],
                            LAMBDA i : script[i] = "name is ")
        close(i) == CHOOSE j \in (i + 2)..Len(script) :
                        /\ script[j] = DQ
                        /\ \A k \in (i + 2)..(j - 1) : script[k] # DQ
    IN  [k \in 1..Len(starts) |-> SubSeq(script, starts[k] + 2, close(starts[k]) - 1)]

\* the items of songs that are not blank, trimmed
NonBlankItems(ss) ==
    LET items == Split(ss, ",")
        kept == SelectSeq(items, LAMBDA s : \E i \in 1..Len(s) : s[i] \notin {" ", "\n", "\t"})
    IN  [i \in 1..Len(kept) |-> Strip(kept[i])]

\* C10: itunes_create_playlist returns "No songs provided." without a run of
\* the interpreter exactly when every item of songs is blank; otherwise it
\* runs one script with one clause per non-blank item, in order, and every
\* clause holds a non-empty sanitized name.
C10_AsStated ==
    tool = "itunes_create_playlist" =>
        LET items == NonBlankItems(songs)
        IN  /\ (result = <<"No songs provided.">> /\ invoked = <<>>) <=> (items = <<>>)
            /\ items # <<>> =>
                   /\ Len(invoked) = 1
                   /\ LET names == ClauseNames(invoked[1])
                      IN  /\ Len(names) = Len(items)
                          /\ \A i \in 1..Len(items) :
                                 /\ names[i] = sanitize_query(items[i])
                                 /\ names[i] # <<>>
====
